---- MODULE Spec2Model ----
(***************************************************************************)
(* Human-in-the-loop chat application: the Flask chat handlers             *)
(* (app/chat/routes.py), the LangGraph turn engine and its graph manager   *)
(* (app/chat/agent_runtime.py), the prompt middleware                      *)
(* (app/chat/dynamic_prompting.py) and the ChatMessage table                *)
(* (app/models.py).                                                        *)
(*                                                                         *)
(* The model runs the deterministic LocalSkillModel (USE_FAKE_LLM /        *)
(* TESTING), the only model whose code is part of the repository.          *)
(* Python's None is the string "None"; an absent pending_message_id and an *)
(* absent decision message_id are 0, which Python's `or` / `not` treat as  *)
(* None.                                                                   *)
(***************************************************************************)
EXTENDS Integers, Sequences, FiniteSets, TLC

VARIABLES
    rows,        \* ChatMessage table: id -> row
    ckpt,        \* SqliteSaver: thread_id -> [next, st] (latest checkpoint)
    sess,        \* Flask session cookies: session -> [thread_id, last_feedback]
    manager,     \* _CHAT_MANAGER: the process-wide ChatGraphManager
    nextThread,  \* number of thread ids uuid4() has produced
    forged,      \* decisions so far that named a row other than the pending draft
    reqs,        \* in-flight send_message requests of the threaded server
    twin         \* the same system driven by one never-discarded engine

vars == <<rows, ckpt, sess, manager, nextThread, forged, reqs, twin>>

---------------------------------------------------------------------------
(* Bounds of the model *)

MaxRows == 4
MaxThreads == 2
MaxForged == 1

None == "None"

Sessions == {"s1", "s2"}

\* the browser session s belongs to a logged-in User
current_user(s) ==
    IF s = "s1" THEN [id |-> 1, username |-> "alice", skill_level |-> "beginner"]
                ELSE [id |-> 2, username |-> "bob", skill_level |-> "expert"]

\* request.form["message"] values: blank, a plain question, a weather question
FormMessages == {"", "what is a list?", "weather in berlin?"}

\* request.form["feedback"] values, already stripped
Feedbacks == {"", "be deeply technical"}

---------------------------------------------------------------------------
(* Texts.  A text is a record [kind, q]: kind "plain" is the literal text q *)
(* typed by a user, the other kinds are the answer templates of            *)
(* LocalSkillModel._render_answer filled with the question q.              *)

Plain(s) == [kind |-> "plain", q |-> s]
EmptyText == Plain("")

\* phrase containment, `phrase in text.lower()`, for the texts of the model
StrContains(s, phrase) ==
    \/ s = phrase
    \/ s = "be deeply technical" /\ phrase = "deeply technical"
    \/ s = "weather in berlin?" /\ phrase = "weather"

\* text.strip(), for the texts of the model: " " is the one with blanks around
Strip(text) == IF text = " " THEN "" ELSE text

---------------------------------------------------------------------------
(* app/chat/dynamic_prompting.py *)

\* the phrases of the three style paragraphs that _detect_role and the tests look for
StylePhrases(style) ==
    CASE style = "expert" -> {"deeply technical", "advanced examples"}
      [] style = "mid" -> {"explain precisely", "code"}
      [] OTHER -> {"very simple language"}

\* the system prompt: base sentence for the user, style paragraph, feedback guidance
_prompt_for_skill(role, user_name, feedback) ==
    [style |-> IF role = "expert" THEN "expert" ELSE IF role = "mid" THEN "mid" ELSE "simple",
     user |-> IF user_name = "" THEN "the user" ELSE user_name,
     guidance |-> IF feedback \notin {None, ""} THEN feedback ELSE None]

\* `phrase in prompt.lower()`
PromptContains(prompt, phrase) ==
    \/ phrase \in StylePhrases(prompt.style)
    \/ StrContains(prompt.user, phrase)
    \/ prompt.guidance # None /\ StrContains(prompt.guidance, phrase)

---------------------------------------------------------------------------
(* LocalSkillModel and the agent loop of create_agent *)

Human(text) == [type |-> "human", content |-> text]
AI(text) == [type |-> "ai", content |-> text]

RECURSIVE LastOfType(_, _, _)
\* index of the last message of the given type at or before index i, 0 if none
LastOfType(messages, type, i) ==
    IF i = 0 THEN 0
    ELSE IF messages[i].type = type THEN i
    ELSE LastOfType(messages, type, i - 1)

_extract_question(messages) ==
    LET i == LastOfType(messages, "human", Len(messages))
    IN IF i = 0 THEN "Python" ELSE messages[i].content.q

_detect_role(prompt) ==
    IF PromptContains(prompt, "deeply technical") \/ PromptContains(prompt, "advanced examples")
    THEN "expert"
    ELSE IF PromptContains(prompt, "explain precisely") /\ PromptContains(prompt, "code")
    THEN "mid"
    ELSE "beginner"

_render_answer(question, role) ==
    IF role = "expert" THEN [kind |-> "deep-dive", q |-> question]
    ELSE IF role = "mid" THEN [kind |-> "explanation", q |-> question]
    ELSE [kind |-> "simple", q |-> question]

\* the model requests the weather tool iff the question mentions weather
_planned_tool_calls(question) ==
    IF StrContains(question, "weather") THEN {"weather_tool"} ELSE {}

\* super-steps a graph run may take before GraphRecursionError (LangGraph default)
RecursionLimit == 25

RECURSIVE AgentLoop(_, _, _)
\* create_agent's loop: call the model; if it requested tools run them and call
\* the model again on the longer message list; stop at the first reply without
\* tool calls.  LocalSkillModel reads only the last human message and the system
\* prompt, so every round of one invocation produces the same reply.
\* ok = FALSE when the rounds reach the recursion limit (GraphRecursionError).
AgentLoop(messages, prompt, steps) ==
    LET question == _extract_question(messages)
        answer == _render_answer(question, _detect_role(prompt))
    IN IF _planned_tool_calls(question) = {}
       THEN [ok |-> TRUE, answer |-> answer]
       ELSE IF steps + 2 > RecursionLimit
       THEN [ok |-> FALSE, answer |-> answer]
       ELSE AgentLoop(messages, prompt, steps + 2)

agent_invoke(messages, context) ==
    AgentLoop(messages,
              _prompt_for_skill(context.user_role, context.user_name, context.last_feedback),
              1)

---------------------------------------------------------------------------
(* The ChatMessage table *)

RowIds(w) == DOMAIN w.rows

\* SQLite rowid primary key without AUTOINCREMENT: one more than the largest id in use
NewId(w) ==
    IF RowIds(w) = {} THEN 1
    ELSE 1 + (CHOOSE i \in RowIds(w) : \A j \in RowIds(w) : j <= i)

\* datetime.utcnow() / datetime.now(UTC): later than every stored created_at
Now(w) ==
    IF RowIds(w) = {} THEN 1
    ELSE 1 + (CHOOSE c \in {w.rows[i].created_at : i \in RowIds(w)} :
                \A j \in RowIds(w) : w.rows[j].created_at <= c)

\* db.session.add(ChatMessage(...)); db.session.commit(): created_at defaults to now
InsertRow(w, user_id, thread_id, role, content, approved) ==
    [w EXCEPT
       !.rows = [i \in RowIds(w) \cup {NewId(w)} |->
                   IF i \in RowIds(w) THEN w.rows[i]
                   ELSE [user_id |-> user_id, thread_id |-> thread_id, role |-> role,
                         content |-> content, approved |-> approved,
                         rejection_reason |-> None, created_at |-> Now(w)]]]

\* ChatMessage.query.filter_by(user_id, thread_id, role="assistant")
AssistantRows(w, user_id, thread_id) ==
    {i \in RowIds(w) : /\ w.rows[i].user_id = user_id
                       /\ w.rows[i].thread_id = thread_id
                       /\ w.rows[i].role = "assistant"}

\* .order_by(ChatMessage.created_at.desc()).first(), 0 for no row
LatestAssistant(w, user_id, thread_id) ==
    LET c == AssistantRows(w, user_id, thread_id)
    IN IF c = {} THEN 0
       ELSE CHOOSE i \in c : \A j \in c : w.rows[j].created_at <= w.rows[i].created_at

---------------------------------------------------------------------------
(* ChatGraphManager: the two nodes of the turn graph *)

\* no resume value: the node is run for the first time
NoDecision == [kind |-> "none", approved |-> FALSE, message_id |-> 0, feedback |-> None]

NoAnswer == [kind |-> "none", q |-> ""]

\* `state.get("last_answer") or ""`
AnswerOrEmpty(st) == IF st.last_answer = NoAnswer THEN EmptyText ELSE st.last_answer

\* the Context that run_chat_turn / resume_chat_turn build for the invocation
Context(user, thread_id, last_feedback) ==
    [user_role |-> user.skill_level, user_name |-> user.username, user_id |-> user.id,
     last_feedback |-> last_feedback, thread_id |-> thread_id]

\* _llm_turn: the feedback of the state replaces the context's, the prompt
\* messages are logged, the agent is invoked and its messages and answer are
\* written to the state.  ok = FALSE when agent.invoke raises.
_llm_turn(st, context) ==
    LET ctx == [context EXCEPT !.last_feedback = st.last_feedback]
        response == agent_invoke(st.messages, ctx)
    IN [ok |-> response.ok,
        log |-> [thread_id |-> st.thread_id, messages |-> st.messages,
                 feedback |-> ctx.last_feedback,
                 prompt |-> _prompt_for_skill(ctx.user_role, ctx.user_name, ctx.last_feedback),
                 answer |-> response.answer],
        st |-> [st EXCEPT !.messages = st.messages \o <<AI(response.answer)>>,
                          !.last_answer = response.answer,
                          !.needs_retry = FALSE,
                          !.pending_message_id = 0]]

\* the query of _ensure_pending_message_row (lines 420-428): the newest
\* assistant row of the user and thread as loaded, id 0 for no row
LatestPending(w, st) ==
    LET latest == LatestAssistant(w, st.user_id, st.thread_id)
    IN IF latest = 0
       THEN [id |-> 0, approved |-> None, content |-> EmptyText, rejection_reason |-> None]
       ELSE [id |-> latest, approved |-> w.rows[latest].approved,
             content |-> w.rows[latest].content,
             rejection_reason |-> w.rows[latest].rejection_reason]

\* the reused row re-stamped on every call, changed or not
EnsurePendingWriteAlwaysStamps(w, st, answer, latest_pending) ==
    IF latest_pending.id # 0 /\ latest_pending.approved = None
    THEN [id |-> latest_pending.id,
          w |-> [w EXCEPT !.rows[latest_pending.id] =
                   [w.rows[latest_pending.id] EXCEPT !.content = answer,
                                                     !.rejection_reason = None,
                                                     !.created_at = Now(w)]]]
    ELSE [id |-> NewId(w),
          w |-> InsertRow(w, st.user_id, st.thread_id, "assistant", answer, None)]

\* the rest of _ensure_pending_message_row (lines 429-453) on the loaded row:
\* reuse it when it is unapproved (new text, reason cleared and created_at
\* refreshed only if something changed), else insert a new unapproved row.
\* Returns the system with the table changed, and the id, as [w, id].
EnsurePendingWrite(w, st, answer, latest_pending) ==
    IF latest_pending.id # 0 /\ latest_pending.approved = None
    THEN LET updated == \/ latest_pending.content # answer
                        \/ latest_pending.rejection_reason \notin {None, ""}
         IN [id |-> latest_pending.id,
             w |-> IF updated /\ latest_pending.id \in RowIds(w)
                   THEN [w EXCEPT !.rows[latest_pending.id] =
                           [w.rows[latest_pending.id] EXCEPT !.content = answer,
                                                             !.rejection_reason = None,
                                                             !.created_at = Now(w)]]
                   ELSE w]
    ELSE [id |-> NewId(w),
          w |-> InsertRow(w, st.user_id, st.thread_id, "assistant", answer, None)]

\* a new row on every call, no reuse
EnsureAlwaysInserts(w, st, answer) ==
    [id |-> NewId(w),
     w |-> InsertRow(w, st.user_id, st.thread_id, "assistant", answer, None)]

_ensure_pending_message_row(w, st, answer) ==
    EnsurePendingWrite(w, st, answer, LatestPending(w, st))

\* _cleanup_extra_pending: every other unapproved assistant row of the user and
\* thread is marked rejected
_cleanup_extra_pending(w, st, active_id) ==
    [w EXCEPT !.rows = [i \in RowIds(w) |->
        IF /\ i \in AssistantRows(w, st.user_id, st.thread_id)
           /\ w.rows[i].approved = None
           /\ i # active_id
        THEN [w.rows[i] EXCEPT !.approved = "False"]
        ELSE w.rows[i]]]

\* the draft row written without the answer the payload shows
GateEnterBlankDraft(w, st) ==
    LET ens == _ensure_pending_message_row(w, st, EmptyText)
    IN [w |-> ens.w,
        payload |-> [kind |-> "message_review", message_id |-> ens.id,
                     answer |-> AnswerOrEmpty(st), question |-> st.question,
                     thread_id |-> st.thread_id]]

\* _approval_gate up to interrupt(payload): lines 344-356
GateEnter(w, st) ==
    LET answer == AnswerOrEmpty(st)
        ens == IF st.pending_message_id = 0
               THEN _ensure_pending_message_row(w, st, answer)
               ELSE [id |-> st.pending_message_id,
                     w |-> _cleanup_extra_pending(w, st, st.pending_message_id)]
    IN [w |-> ens.w,
        payload |-> [kind |-> "message_review", message_id |-> ens.id, answer |-> answer,
                     question |-> st.question, thread_id |-> st.thread_id]]

\* the rejected draft left in the list
PopNothing(messages, idx) == messages

RECURSIVE PopLastAI(_, _)
\* the loop of lines 369-372: remove the last AIMessage of the list
PopLastAI(messages, idx) ==
    IF idx = 0 THEN messages
    ELSE IF messages[idx].type = "ai"
    THEN SubSeq(messages, 1, idx - 1) \o SubSeq(messages, idx + 1, Len(messages))
    ELSE PopLastAI(messages, idx - 1)

\* the rejection written without its feedback
GateDecideDropsFeedback(w, st, pending_id, decision) ==
    LET target_id == IF decision.message_id # 0 THEN decision.message_id ELSE pending_id
        w1 == IF target_id \in RowIds(w)
              THEN [w EXCEPT !.rows[target_id] =
                       [w.rows[target_id] EXCEPT
                          !.approved = IF decision.approved THEN "True" ELSE "False",
                          !.rejection_reason = None]]
              ELSE w
    IN [w |-> w1,
        st |-> IF decision.approved
               THEN [st EXCEPT !.pending_message_id = 0, !.needs_retry = FALSE]
               ELSE [st EXCEPT !.messages = PopLastAI(st.messages, Len(st.messages)),
                               !.pending_message_id = 0,
                               !.needs_retry = TRUE,
                               !.last_feedback = decision.feedback]]

\* _approval_gate after interrupt(payload) has returned the decision: lines 358-374.
\* The decision is written to the row ChatMessage.query.get(target_id) finds;
\* the state gets the returned update, and on a rejection the in-place pop.
GateDecide(w, st, pending_id, decision) ==
    LET approved == decision.approved
        feedback == decision.feedback
        target_id == IF decision.message_id # 0 THEN decision.message_id ELSE pending_id
        w1 == IF target_id \in RowIds(w)
              THEN [w EXCEPT !.rows[target_id] =
                       [w.rows[target_id] EXCEPT
                          !.approved = IF approved THEN "True" ELSE "False",
                          !.rejection_reason = IF approved THEN None ELSE feedback]]
              ELSE w
    IN [w |-> w1,
        st |-> IF approved
               THEN [st EXCEPT !.pending_message_id = 0, !.needs_retry = FALSE]
               ELSE [st EXCEPT !.messages = PopLastAI(st.messages, Len(st.messages)),
                               !.pending_message_id = 0,
                               !.needs_retry = TRUE,
                               !.last_feedback = feedback]]

\* _approval_gate as the graph runs it: started without a resume value it raises
\* the interrupt; resumed, it runs again from its first line and goes on past
\* interrupt() with the decision
_approval_gate(w, st, decision) ==
    LET e == GateEnter(w, st)
    IN IF decision.kind = "none"
       THEN [interrupted |-> TRUE, w |-> e.w, st |-> st, payload |-> e.payload]
       ELSE LET d == GateDecide(e.w, st, e.payload.message_id, decision)
            IN [interrupted |-> FALSE, w |-> d.w, st |-> d.st, payload |-> e.payload]

---------------------------------------------------------------------------
(* The compiled graph (_ensure_graph) and graph.stream *)

NoPayload == [kind |-> "none"]

\* no way back to llm_turn
RouteNeverRetries(st) == "end"

\* the edge taken the wrong way round
RouteInverted(st) == IF st.needs_retry THEN "end" ELSE "llm_turn"

\* the conditional edge after approval_gate
Route(st) == IF st.needs_retry THEN "llm_turn" ELSE "end"

SaveCheckpoint(w, t, next, st) ==
    [w EXCEPT !.ckpt = [x \in DOMAIN w.ckpt \cup {t} |->
                          IF x = t THEN [next |-> next, st |-> st] ELSE w.ckpt[x]]]

Returned(w, status, payload) ==
    [w EXCEPT !.result.status = status, !.result.payload = payload]

\* needs_retry left as the rejection set it
GenerateKeepsRetry(w, st, context) ==
    [_llm_turn(st, context) EXCEPT !.st.needs_retry = st.needs_retry]

\* a failure of the model adapter reported as an answer
GenerateSwallowsFailure(w, st, context) == [_llm_turn(st, context) EXCEPT !.ok = TRUE]

\* the role read off the prompt written back as the user's skill level
GenerateSetsSkill(w, st, context) ==
    [_llm_turn(st, context) EXCEPT
        !.st.skill_level = _detect_role(_llm_turn(st, context).log.prompt)]

\* the llm_turn node on the system w.  w.backend = "down" is a model backend
\* that raises during this request: agent.invoke raises out of _llm_turn
\* after the prompt messages are logged, and the state is not written.
Generate(w, st, context) ==
    IF w.backend = "down"
    THEN [_llm_turn(st, context) EXCEPT !.ok = FALSE]
    ELSE _llm_turn(st, context)

RECURSIVE Pregel(_, _, _, _, _, _)
\* The super-step loop from node `node` on: START -> llm_turn -> approval_gate
\* -> (retry: llm_turn | approved: END).  A checkpoint is saved after every
\* completed step; a node that raises or interrupts leaves the checkpoint at
\* itself.  The resume value reaches only the interrupted approval_gate.
\* run / resume return at the first __interrupt__ event, else "complete".
Pregel(w, t, node, st, decision, context) ==
    IF node = "end"
    THEN Returned(SaveCheckpoint(w, t, "end", st), "complete", NoPayload)
    ELSE IF node = "llm_turn"
    THEN LET g == Generate(w, st, context)
             w1 == [w EXCEPT !.promptLog = Append(w.promptLog, g.log)]
         IN IF g.ok
            THEN Pregel(w1, t, "approval_gate", g.st, NoDecision, context)
            ELSE Returned(SaveCheckpoint(w1, t, "llm_turn", st), "error", NoPayload)
    ELSE LET g == _approval_gate(w, st, decision)
         IN IF g.interrupted
            THEN Returned(SaveCheckpoint(g.w, t, "approval_gate", st), "interrupt", g.payload)
            ELSE Pregel(g.w, t, Route(g.st), g.st, NoDecision, context)

\* graph.stream(state, config): the input is written over the thread's latest
\* checkpoint (messages through the add_messages reducer, which appends the
\* id-less history; channels the input lacks keep their value) and the graph
\* starts at START
InputState(w, t, state) ==
    IF t \in DOMAIN w.ckpt
    THEN [state EXCEPT !.messages = w.ckpt[t].st.messages \o state.messages,
                       !.last_answer = w.ckpt[t].st.last_answer]
    ELSE state

StreamInput(w, t, state, context) ==
    Pregel(w, t, "llm_turn", InputState(w, t, state), NoDecision, context)

\* graph.stream(Command(resume=payload), config): continue from the thread's
\* latest checkpoint.  Without a checkpoint the graph has no state to run on and
\* the call raises; at END there is no task left and the stream is empty.
\* a finished thread resumed in approval_gate again
StreamResumeReentersGate(w, t, payload, context) ==
    IF t \notin DOMAIN w.ckpt
    THEN Returned(w, "error", NoPayload)
    ELSE Pregel(w, t,
                IF w.ckpt[t].next = "end" THEN "approval_gate" ELSE w.ckpt[t].next,
                w.ckpt[t].st, payload, context)

StreamResume(w, t, payload, context) ==
    IF t \notin DOMAIN w.ckpt
    THEN Returned(w, "error", NoPayload)
    ELSE IF w.ckpt[t].next = "end"
    THEN Returned(w, "complete", NoPayload)
    ELSE Pregel(w, t, w.ckpt[t].next, w.ckpt[t].st, payload, context)

\* _get_chat_manager, then _ensure_graph: the manager is built on first use
\* and its graph, agent and checkpointer connection are memoized
_ensure_graph(w) == [w EXCEPT !.manager = "graph"]

\* _get_chat_manager, then _ensure_checkpointer alone
_ensure_checkpointer(w) ==
    [w EXCEPT !.manager = IF w.manager = "graph" THEN "graph" ELSE "checkpointer"]

\* ChatGraphManager.run
run(w, state, context, thread_id) ==
    StreamInput(_ensure_graph(w), thread_id, state, context)

\* ChatGraphManager.resume
resume(w, thread_id, payload, context) ==
    StreamResume(_ensure_graph(w), thread_id, payload, context)

\* every thread's checkpoint deleted with the one named
ResetThreadDropsAll(w, thread_id) == [_ensure_checkpointer(w) EXCEPT !.ckpt = <<>>]

\* reset_thread_state / ChatGraphManager.reset_thread: nothing for an empty
\* id, else delete_thread(thread_id)
reset_thread(w, thread_id) ==
    IF thread_id = 0 THEN w
    ELSE LET w1 == _ensure_checkpointer(w)
         IN [w1 EXCEPT !.ckpt = [x \in DOMAIN w.ckpt \ {thread_id} |-> w.ckpt[x]]]

\* reset_chat_runtime: close the connection and drop the manager
\* the checkpoints lost with the engine, as with a saver held in memory
ResetLosesCheckpoints(w) == [w EXCEPT !.manager = None, !.ckpt = <<>>]

reset_chat_runtime(w) == [w EXCEPT !.manager = None]

run_chat_turn(w, user, thread_id, history, question, last_feedback) ==
    run(w,
        [messages |-> history, user_name |-> user.username, user_id |-> user.id,
         skill_level |-> user.skill_level, thread_id |-> thread_id,
         last_feedback |-> last_feedback, question |-> question,
         pending_message_id |-> 0, needs_retry |-> FALSE, last_answer |-> NoAnswer],
        Context(user, thread_id, last_feedback),
        thread_id)

resume_chat_turn(w, user, thread_id, payload) ==
    resume(w, thread_id, payload, Context(user, thread_id, None))

---------------------------------------------------------------------------
(* app/chat/routes.py: the request handlers, each on the system record w *)

\* nothing logged
NoLog == <<>>

\* a request starts: nothing returned and nothing logged yet
Handling(w, op, s) ==
    [w EXCEPT !.result = [op |-> op, status |-> "none", payload |-> NoPayload],
              !.promptLog = NoLog]

\* _thread_id: the session's thread id, a fresh uuid4 on first use
_thread_id(w, s) ==
    IF w.sess[s].thread_id # 0 THEN w
    ELSE [w EXCEPT !.nextThread = w.nextThread + 1,
                   !.sess[s].thread_id = w.nextThread + 1]

_has_pending_message(w, s, thread_id) ==
    \E i \in AssistantRows(w, current_user(s).id, thread_id) : w.rows[i].approved = None

RECURSIVE SortedByCreatedAt(_, _)
\* sorted(messages, key=created_at) over the rows `ids`
SortedByCreatedAt(w, ids) ==
    IF ids = {} THEN <<>>
    ELSE LET first == CHOOSE i \in ids : \A j \in ids :
                        \/ w.rows[i].created_at < w.rows[j].created_at
                        \/ w.rows[i].created_at = w.rows[j].created_at /\ i <= j
         IN <<first>> \o SortedByCreatedAt(w, ids \ {first})

RECURSIVE HistoryOfNotRejected(_, _)
\* unapproved drafts let through, only rejected ones skipped
HistoryOfNotRejected(w, ordered) ==
    IF ordered = <<>> THEN <<>>
    ELSE LET item == w.rows[Head(ordered)]
             rest == HistoryOfNotRejected(w, Tail(ordered))
         IN IF item.role = "assistant" /\ item.approved = "False" THEN rest
            ELSE IF item.role = "assistant" THEN <<AI(item.content)>> \o rest
            ELSE <<Human(item.content)>> \o rest

RECURSIVE HistoryOf(_, _)
HistoryOf(w, ordered) ==
    IF ordered = <<>> THEN <<>>
    ELSE LET item == w.rows[Head(ordered)]
             rest == HistoryOf(w, Tail(ordered))
         IN IF item.role = "assistant" /\ item.approved # "True" THEN rest
            ELSE IF item.role = "assistant" THEN <<AI(item.content)>> \o rest
            ELSE <<Human(item.content)>> \o rest

\* build_langchain_history over the rows `ids`
build_langchain_history(w, ids) == HistoryOf(w, SortedByCreatedAt(w, ids))

\* ChatMessage.query.filter_by(user_id, thread_id)
ThreadRows(w, user_id, thread_id) ==
    {i \in RowIds(w) : w.rows[i].user_id = user_id /\ w.rows[i].thread_id = thread_id}

\* GET /chat/
index(w, s) == Handling(_thread_id(w, s), "index", s)

\* the feedback held for the next turn taken before the request is checked
SendMessagePopsFirst(w, s, message) ==
    LET w0 == Handling(_thread_id(w, s), "send_message", s)
        w1 == [w0 EXCEPT !.sess[s].last_feedback = None]
        thread_id == w1.sess[s].thread_id
        user == current_user(s)
        content == Strip(message)
    IN IF _has_pending_message(w1, s, thread_id) THEN w1
       ELSE IF content = "" THEN w1
       ELSE LET w2 == InsertRow(w1, user.id, thread_id, "user", Plain(content), "True")
                history == build_langchain_history(w2, ThreadRows(w2, user.id, thread_id))
            IN run_chat_turn(w2, user, thread_id, history, content, w0.sess[s].last_feedback)

\* POST /chat/
send_message(w, s, message) ==
    LET w1 == Handling(_thread_id(w, s), "send_message", s)
        thread_id == w1.sess[s].thread_id
        user == current_user(s)
        content == Strip(message)
    IN IF _has_pending_message(w1, s, thread_id) THEN w1
       ELSE IF content = "" THEN w1
       ELSE LET w2 == InsertRow(w1, user.id, thread_id, "user", Plain(content), "True")
                history == build_langchain_history(w2, ThreadRows(w2, user.id, thread_id))
                last_feedback == w2.sess[s].last_feedback
                w3 == [w2 EXCEPT !.sess[s].last_feedback = None]
            IN run_chat_turn(w3, user, thread_id, history, content, last_feedback)

\* POST /chat/reset
reset_chat(w, s) ==
    LET w0 == Handling(w, "reset_chat", s)
        thread_id == w0.sess[s].thread_id
        user == current_user(s)
        w1 == IF thread_id = 0 THEN w0
              ELSE reset_thread(
                     [w0 EXCEPT !.rows = [i \in RowIds(w0) \ ThreadRows(w0, user.id, thread_id)
                                            |-> w0.rows[i]]],
                     thread_id)
    IN [w1 EXCEPT !.nextThread = w1.nextThread + 1,
                  !.sess[s].thread_id = w1.nextThread + 1]

Resuming(w, s, op, payload) ==
    LET w1 == Handling(_thread_id(w, s), op, s)
    IN resume_chat_turn(w1, current_user(s), w1.sess[s].thread_id, payload)

\* POST /chat/approve
approve_message(w, s, message_id) ==
    Resuming(w, s, "approve_message",
             [kind |-> "message_review", approved |-> TRUE, message_id |-> message_id,
              feedback |-> None])

\* POST /chat/reject
reject_message(w, s, message_id, feedback) ==
    Resuming([w EXCEPT !.sess[s].last_feedback = IF feedback = "" THEN None ELSE feedback],
             s, "reject_message",
             [kind |-> "message_review", approved |-> FALSE, message_id |-> message_id,
              feedback |-> feedback])

\* POST /chat/tool/approve
approve_tool(w, s, log_id) ==
    Resuming(w, s, "approve_tool",
             [kind |-> "tool_review", approved |-> TRUE, message_id |-> 0, feedback |-> None])

\* POST /chat/tool/reject
reject_tool(w, s, log_id, feedback) ==
    Resuming(w, s, "reject_tool",
             [kind |-> "tool_review", approved |-> FALSE, message_id |-> 0,
              feedback |-> feedback])

---------------------------------------------------------------------------
(* The state machine: one request at a time *)

NoResult == [op |-> "none", status |-> "none", payload |-> NoPayload]

\* The system as the handlers see it.  result is what the handler got back
\* from run / resume and promptLog what _llm_turn logged: outputs of one
\* request, which no later request reads.  backend is whether the model
\* backend answers during the request ("up") or raises ("down").  promptLog has one entry per
\* _llm_turn call of the request (_log_prompt_messages, _log_model_answer).
Sys ==
    [rows |-> rows, ckpt |-> ckpt, sess |-> sess, manager |-> manager,
     nextThread |-> nextThread, result |-> NoResult, promptLog |-> NoLog,
     backend |-> "up"]

\* created_at values are only ever compared with each other (order_by, sorted):
\* between requests the table keeps their order as ranks 1..n
Canon(w) ==
    [w EXCEPT !.rows = [i \in RowIds(w) |->
        [w.rows[i] EXCEPT !.created_at =
            Cardinality({j \in RowIds(w) : w.rows[j].created_at <= w.rows[i].created_at})]]]

Becomes(w) ==
    /\ rows' = w.rows
    /\ ckpt' = w.ckpt
    /\ sess' = w.sess
    /\ manager' = w.manager
    /\ nextThread' = w.nextThread

\* the bounds of the exploration
Within(w) ==
    /\ Cardinality(RowIds(w)) <= MaxRows
    /\ w.nextThread <= MaxThreads

\* message_id values a form may carry: "0", the id of any row, an id of no row
FormIds(w) == {0} \cup RowIds(w) \cup {NewId(w)}

InitSys ==
    [rows |-> <<>>,
     ckpt |-> <<>>,
     sess |-> [s \in Sessions |-> [thread_id |-> 0, last_feedback |-> None]],
     manager |-> None,
     nextThread |-> 0,
     result |-> NoResult,
     promptLog |-> NoLog,
     backend |-> "up"]

NoTwin == [rows |-> <<>>]

Init ==
    /\ rows = InitSys.rows
    /\ ckpt = InitSys.ckpt
    /\ sess = InitSys.sess
    /\ manager = InitSys.manager
    /\ nextThread = InitSys.nextThread
    /\ forged = 0
    /\ reqs = <<>>
    /\ twin = NoTwin

Step(w) == Within(w) /\ Becomes(Canon(w)) /\ UNCHANGED <<forged, reqs, twin>>

\* the id the suspended thread of session s would show for review, 0 if the
\* thread is not suspended
ReviewId(w, s) ==
    LET t == w.sess[s].thread_id
    IN IF t \in DOMAIN w.ckpt /\ w.ckpt[t].next = "approval_gate"
       THEN LatestPending(w, w.ckpt[t].st).id
       ELSE 0

\* the thread of session s is suspended in approval_gate
AtGateOf(s) ==
    /\ sess[s].thread_id \in DOMAIN ckpt
    /\ ckpt[sess[s].thread_id].next = "approval_gate"

\* a decision for a suspended thread that names another row than the one under review
Forges(w, s, m) == ReviewId(w, s) # 0 /\ m \notin {0, ReviewId(w, s)}

DecisionStep(w, s, m) ==
    /\ Within(w)
    /\ Becomes(Canon(w))
    /\ forged' = IF Forges(Sys, s, m) THEN forged + 1 ELSE forged
    /\ forged' <= MaxForged
    /\ UNCHANGED <<reqs, twin>>

Index == \E s \in Sessions : Step(index(Sys, s))

SendMessage == \E s \in Sessions, message \in FormMessages : Step(send_message(Sys, s, message))

ApproveMessage == \E s \in Sessions, m \in FormIds(Sys) : DecisionStep(approve_message(Sys, s, m), s, m)

RejectMessage ==
    \E s \in Sessions, m \in FormIds(Sys), f \in Feedbacks : DecisionStep(reject_message(Sys, s, m, f), s, m)

ApproveTool == \E s \in Sessions : Step(approve_tool(Sys, s, 1))

RejectTool == \E s \in Sessions, f \in Feedbacks : Step(reject_tool(Sys, s, 1, f))

ResetChat == \E s \in Sessions : Step(reset_chat(Sys, s))

Next ==
    \/ Index
    \/ SendMessage
    \/ ApproveMessage
    \/ RejectMessage
    \/ ApproveTool
    \/ RejectTool
    \/ ResetChat

Spec == Init /\ [][Next]_vars

---------------------------------------------------------------------------
(* Overlapping requests.  The handlers take no lock and the manager is one  *)
(* object shared by the server's threads, so a POST /chat/ can be anywhere  *)
(* in send_message while another request runs.  A request in flight is a    *)
(* record of reqs: pc = "run" after the question row is committed, and      *)
(* pc = "commit" after the model has answered and                           *)
(* _ensure_pending_message_row has loaded the latest assistant row.         *)

MaxReqs == 2

NoPending == [id |-> 0, approved |-> None, content |-> EmptyText, rejection_reason |-> None]

Without(seq, k) == SubSeq(seq, 1, k - 1) \o SubSeq(seq, k + 1, Len(seq))

\* the Turn State run_chat_turn builds (lines 63-74)
TurnState(user, thread_id, history, question, last_feedback) ==
    [messages |-> history, user_name |-> user.username, user_id |-> user.id,
     skill_level |-> user.skill_level, thread_id |-> thread_id,
     last_feedback |-> last_feedback, question |-> question,
     pending_message_id |-> 0, needs_retry |-> FALSE, last_answer |-> NoAnswer]

\* send_message up to the call of run_chat_turn: the pending-draft check, the
\* question row, the history, the feedback popped from the session
ReqBegin ==
    \E s \in Sessions, message \in FormMessages \ {""} :
        LET w1 == Handling(_thread_id(Sys, s), "send_message", s)
            thread_id == w1.sess[s].thread_id
            user == current_user(s)
            w2 == InsertRow(w1, user.id, thread_id, "user", Plain(message), "True")
            history == build_langchain_history(w2, ThreadRows(w2, user.id, thread_id))
            w3 == [w2 EXCEPT !.sess[s].last_feedback = None]
        IN /\ Len(reqs) < MaxReqs
           /\ ~_has_pending_message(w1, s, thread_id)
           /\ Within(w3)
           /\ Becomes(Canon(w3))
           /\ reqs' = Append(reqs,
                  [s |-> s, thread_id |-> thread_id, pc |-> "run",
                   st |-> TurnState(user, thread_id, history, message,
                                    w2.sess[s].last_feedback),
                   latest_pending |-> NoPending])
           /\ UNCHANGED <<forged, twin>>

\* run: the input merged into the thread's checkpoint, llm_turn, the
\* checkpoint of the step, and in approval_gate the query of
\* _ensure_pending_message_row (lines 420-428)
ReqGenerate ==
    \E k \in 1..Len(reqs) :
        LET r == reqs[k]
            w == _ensure_graph(Sys)
            st0 == InputState(w, r.thread_id, r.st)
            g == _llm_turn(st0, Context(current_user(r.s), r.thread_id, r.st.last_feedback))
        IN /\ r.pc = "run"
           /\ IF g.ok
              THEN /\ Becomes(SaveCheckpoint(w, r.thread_id, "approval_gate", g.st))
                   /\ reqs' = [reqs EXCEPT ![k] =
                         [r EXCEPT !.pc = "commit", !.st = g.st,
                                   !.latest_pending = LatestPending(w, g.st)]]
              ELSE /\ Becomes(SaveCheckpoint(w, r.thread_id, "llm_turn", st0))
                   /\ reqs' = Without(reqs, k)
           /\ UNCHANGED <<forged, twin>>

\* the rest of _ensure_pending_message_row on the row loaded before, then
\* interrupt(payload): the request returns
ReqCommit ==
    \E k \in 1..Len(reqs) :
        LET r == reqs[k]
            e == EnsurePendingWrite(Sys, r.st, AnswerOrEmpty(r.st), r.latest_pending)
        IN /\ r.pc = "commit"
           /\ Within(e.w)
           /\ Becomes(Canon(SaveCheckpoint(e.w, r.thread_id, "approval_gate", r.st)))
           /\ reqs' = Without(reqs, k)
           /\ UNCHANGED <<forged, twin>>

\* the user's decision on the draft shown for review, as one step
ConcApprove ==
    \E s \in Sessions :
        /\ ReviewId(Sys, s) # 0
        /\ Step(approve_message(Sys, s, ReviewId(Sys, s)))

ConcReject ==
    \E s \in Sessions, f \in Feedbacks :
        /\ ReviewId(Sys, s) # 0
        /\ Step(reject_message(Sys, s, ReviewId(Sys, s), f))

ConcNext ==
    \/ ReqBegin
    \/ ReqGenerate
    \/ ReqCommit
    \/ ConcApprove
    \/ ConcReject

ConcSpec == Init /\ [][ConcNext]_vars

---------------------------------------------------------------------------
(* The engine discarded and rebuilt.  twin is the same system run without   *)
(* ever discarding its engine: every request is handled by both, and        *)
(* reset_chat_runtime acts on the real one alone.  twin.result and          *)
(* twin.twinResult are what the last request returned in each, and          *)
(* twin.rebuilt says that the last request resumed a suspended thread on an *)
(* engine that had been discarded since the suspension.                     *)

TwinSys ==
    [rows |-> twin.rows, ckpt |-> twin.ckpt, sess |-> twin.sess, manager |-> twin.manager,
     nextThread |-> twin.nextThread, result |-> NoResult, promptLog |-> NoLog,
     backend |-> "up"]

DurableInit ==
    /\ rows = InitSys.rows
    /\ ckpt = InitSys.ckpt
    /\ sess = InitSys.sess
    /\ manager = InitSys.manager
    /\ nextThread = InitSys.nextThread
    /\ forged = 0
    /\ reqs = <<>>
    /\ twin = [rows |-> InitSys.rows, ckpt |-> InitSys.ckpt, sess |-> InitSys.sess,
               manager |-> InitSys.manager, nextThread |-> InitSys.nextThread,
               result |-> NoResult, twinResult |-> NoResult, rebuilt |-> FALSE]

Both(w, wt, rebuilt) ==
    /\ Within(w)
    /\ Becomes(Canon(w))
    /\ twin' = [rows |-> Canon(wt).rows, ckpt |-> wt.ckpt, sess |-> wt.sess,
                manager |-> wt.manager, nextThread |-> wt.nextThread,
                result |-> w.result, twinResult |-> wt.result, rebuilt |-> rebuilt]
    /\ UNCHANGED <<forged, reqs>>

\* session s resumes a suspended thread and the manager has to be built first
ResumesRebuilt(s) == manager = None /\ AtGateOf(s)

DurableSend ==
    \E s \in Sessions, message \in FormMessages :
        Both(send_message(Sys, s, message), send_message(TwinSys, s, message), FALSE)

DurableApprove ==
    \E s \in Sessions :
        Both(approve_message(Sys, s, ReviewId(Sys, s)),
             approve_message(TwinSys, s, ReviewId(Sys, s)), ResumesRebuilt(s))

DurableReject ==
    \E s \in Sessions, f \in Feedbacks :
        Both(reject_message(Sys, s, ReviewId(Sys, s), f),
             reject_message(TwinSys, s, ReviewId(Sys, s), f), ResumesRebuilt(s))

\* reset_chat_runtime: the manager, its graph and its connection dropped
ResetRuntime ==
    /\ Becomes(reset_chat_runtime(Sys))
    /\ UNCHANGED <<forged, reqs, twin>>

DurableNext ==
    \/ DurableSend
    \/ DurableApprove
    \/ DurableReject
    \/ ResetRuntime

DurableSpec == DurableInit /\ [][DurableNext]_vars

---------------------------------------------------------------------------
(* A resume that stops half way.  _approval_gate commits the decision to    *)
(* the row (line 364) before the step ends and its checkpoint is written;   *)
(* a process that stops in between leaves the row decided and the thread    *)
(* still suspended.  reqs holds the decision whose caller got no response,  *)
(* until it is sent again.                                                  *)

\* the review decision of the form of POST /chat/approve and /chat/reject
ReviewDecision(approved, message_id, feedback) ==
    [kind |-> "message_review", approved |-> approved, message_id |-> message_id,
     feedback |-> feedback]

\* resume on the suspended thread of session s up to line 364, and no further
ResumeLost(w, s, payload) ==
    LET w1 == _ensure_graph(_thread_id(w, s))
        st == w1.ckpt[w1.sess[s].thread_id].st
        e == GateEnter(w1, st)
    IN GateDecide(e.w, st, e.payload.message_id, payload).w

\* the decision sent again by the same form
Repeated(w, r) ==
    IF r.payload.approved
    THEN approve_message(w, r.s, r.payload.message_id)
    ELSE reject_message(w, r.s, r.payload.message_id, r.payload.feedback)

CrashSend ==
    \E s \in Sessions, message \in FormMessages :
        reqs = <<>> /\ Step(send_message(Sys, s, message))

CrashApprove ==
    \E s \in Sessions :
        /\ reqs = <<>>
        /\ ReviewId(Sys, s) # 0
        /\ Step(approve_message(Sys, s, ReviewId(Sys, s)))

CrashReject ==
    \E s \in Sessions, f \in Feedbacks :
        /\ reqs = <<>>
        /\ ReviewId(Sys, s) # 0
        /\ Step(reject_message(Sys, s, ReviewId(Sys, s), f))

ApproveLost ==
    \E s \in Sessions :
        LET payload == ReviewDecision(TRUE, ReviewId(Sys, s), None)
        IN /\ reqs = <<>>
           /\ ReviewId(Sys, s) # 0
           /\ Becomes(Canon(ResumeLost(Sys, s, payload)))
           /\ reqs' = <<[s |-> s, payload |-> payload]>>
           /\ UNCHANGED <<forged, twin>>

RejectLost ==
    \E s \in Sessions, f \in Feedbacks :
        LET payload == ReviewDecision(FALSE, ReviewId(Sys, s), f)
            w == [Sys EXCEPT !.sess[s].last_feedback = IF f = "" THEN None ELSE f]
        IN /\ reqs = <<>>
           /\ ReviewId(Sys, s) # 0
           /\ Becomes(Canon(ResumeLost(w, s, payload)))
           /\ reqs' = <<[s |-> s, payload |-> payload]>>
           /\ UNCHANGED <<forged, twin>>

RepeatResume ==
    /\ reqs # <<>>
    /\ Within(Repeated(Sys, reqs[1]))
    /\ Becomes(Canon(Repeated(Sys, reqs[1])))
    /\ reqs' = <<>>
    /\ UNCHANGED <<forged, twin>>

CrashNext ==
    \/ CrashSend
    \/ CrashApprove
    \/ CrashReject
    \/ ApproveLost
    \/ RejectLost
    \/ RepeatResume

CrashSpec == Init /\ [][CrashNext]_vars

---------------------------------------------------------------------------
(* Requests during which the model backend may fail.  The user's decisions  *)
(* name the draft shown for review.                                         *)

Backends == {"up", "down"}

During(backend) == [Sys EXCEPT !.backend = backend]

OutageSend ==
    \E s \in Sessions, message \in FormMessages, b \in Backends :
        Step(send_message(During(b), s, message))

OutageApprove ==
    \E s \in Sessions, b \in Backends :
        /\ sess[s].thread_id \in DOMAIN ckpt
        /\ Step(approve_message(During(b), s, ReviewId(Sys, s)))

OutageReject ==
    \E s \in Sessions, f \in Feedbacks, b \in Backends :
        /\ ReviewId(Sys, s) # 0
        /\ Step(reject_message(During(b), s, ReviewId(Sys, s), f))

OutageNext ==
    \/ OutageSend
    \/ OutageApprove
    \/ OutageReject

OutageSpec == Init /\ [][OutageNext]_vars

---------------------------------------------------------------------------
(* Two threads on one manager and one checkpoint store.  twin is the system *)
(* in which the requests of session Own are the only ones: Own's requests   *)
(* are handled by both, the requests of the other sessions by the real      *)
(* system alone.  Own decides on the draft shown for review; the others     *)
(* send any message id a form can carry.                                    *)

Own == "s1"

Others == Sessions \ {Own}

OwnSend ==
    \E message \in FormMessages :
        Both(send_message(Sys, Own, message), send_message(TwinSys, Own, message), FALSE)

OwnApprove ==
    /\ ReviewId(Sys, Own) # 0
    /\ Both(approve_message(Sys, Own, ReviewId(Sys, Own)),
            approve_message(TwinSys, Own, ReviewId(TwinSys, Own)), FALSE)

OwnReject ==
    \E f \in Feedbacks :
        /\ ReviewId(Sys, Own) # 0
        /\ Both(reject_message(Sys, Own, ReviewId(Sys, Own), f),
                reject_message(TwinSys, Own, ReviewId(TwinSys, Own), f), FALSE)

OwnReset == Both(reset_chat(Sys, Own), reset_chat(TwinSys, Own), FALSE)

OtherSend == \E s \in Others, message \in FormMessages : Step(send_message(Sys, s, message))

OtherApprove ==
    \E s \in Others, m \in FormIds(Sys) : DecisionStep(approve_message(Sys, s, m), s, m)

OtherReject ==
    \E s \in Others, m \in FormIds(Sys), f \in Feedbacks :
        DecisionStep(reject_message(Sys, s, m, f), s, m)

OtherReset == \E s \in Others : Step(reset_chat(Sys, s))

AloneNext ==
    \/ OwnSend
    \/ OwnApprove
    \/ OwnReject
    \/ OwnReset
    \/ OtherSend
    \/ OtherApprove
    \/ OtherReject
    \/ OtherReset

AloneSpec == DurableInit /\ [][AloneNext]_vars

---------------------------------------------------------------------------
(* Vocabulary of the properties *)

\* the unapproved assistant rows of thread t
PendingIn(w, t) ==
    {i \in RowIds(w) : /\ w.rows[i].thread_id = t
                       /\ w.rows[i].role = "assistant"
                       /\ w.rows[i].approved = None}

RejectedIn(w, t) ==
    {i \in RowIds(w) : /\ w.rows[i].thread_id = t
                       /\ w.rows[i].role = "assistant"
                       /\ w.rows[i].approved = "False"}

ApprovedIn(w, t) ==
    {i \in RowIds(w) : /\ w.rows[i].thread_id = t
                       /\ w.rows[i].role = "assistant"
                       /\ w.rows[i].approved = "True"}

ThreadIds(w) == {w.rows[i].thread_id : i \in RowIds(w)} \cup DOMAIN w.ckpt

\* the engine of thread t is suspended in approval_gate
AtGate(w, t) == t \in DOMAIN w.ckpt /\ w.ckpt[t].next = "approval_gate"

\* session s is on a thread that is suspended on the unapproved draft row m
SuspendedOn(w, s, m) ==
    /\ AtGate(w, w.sess[s].thread_id)
    /\ m \in PendingIn(w, w.sess[s].thread_id)

\* the AI entries of a message list after its last human entry
EntriesAfterQuestion(messages) ==
    {k \in 1..Len(messages) :
        /\ messages[k].type = "ai"
        /\ k > LastOfType(messages, "human", Len(messages))}

\* the assistant rows that are approved in w and were not in the state before
NewlyApproved(w) ==
    {i \in RowIds(w) : /\ w.rows[i].role = "assistant"
                       /\ w.rows[i].approved = "True"
                       /\ ~(i \in DOMAIN rows /\ rows[i].approved = "True")}

---------------------------------------------------------------------------
(* C1.  An assistant row becomes approved only by a resume whose decision   *)
(* carries approved = true: no send_message, reject, tool rejection, reset  *)
(* or page view approves a row.  And every run that send_message starts     *)
(* ends with status "interrupt" and its draft row unapproved.               *)
C1_ApprovalOnlyByDecisionAndRunInterrupts ==
    /\ \A s \in Sessions :
         /\ NewlyApproved(index(Sys, s)) = {}
         /\ NewlyApproved(reset_chat(Sys, s)) = {}
         /\ \A message \in FormMessages : NewlyApproved(send_message(Sys, s, message)) = {}
         /\ \A f \in Feedbacks :
              /\ NewlyApproved(reject_tool(Sys, s, 1, f)) = {}
              /\ \A m \in FormIds(Sys) : NewlyApproved(reject_message(Sys, s, m, f)) = {}
    /\ \A s \in Sessions, message \in FormMessages :
         LET w == send_message(Sys, s, message)
         IN w.result.status # "none" =>
              /\ w.result.status = "interrupt"
              /\ w.rows[w.result.payload.message_id].approved = None

(* C2.  In every reachable state each thread has at most one assistant row  *)
(* with approved = None.                                                    *)
C2_AtMostOnePending ==
    \A t \in ThreadIds(Sys) : Cardinality(PendingIn(Sys, t)) <= 1

\* a forged decision has been resumed and a thread with a rejected draft is
\* suspended on its one unapproved row
C2_Witness ==
    /\ forged > 0
    /\ \E t \in ThreadIds(Sys) :
         AtGate(Sys, t) /\ RejectedIn(Sys, t) # {} /\ Cardinality(PendingIn(Sys, t)) = 1

(* C3.  When run suspends with draft m (straight after send_message, and in *)
(* any later state in which the thread is still suspended on m), approving  *)
(* m returns "complete", leaves row m approved without a rejection reason   *)
(* and leaves the thread without an unapproved assistant row.               *)
ApprovedCleanly(w, s, m) ==
    /\ w.result.status = "complete"
    /\ w.rows[m].approved = "True"
    /\ w.rows[m].rejection_reason = None
    /\ PendingIn(w, w.sess[s].thread_id) = {}

C3_ApproveCompletes ==
    /\ \A s \in Sessions, message \in FormMessages :
         LET w1 == Canon(send_message(Sys, s, message))
         IN w1.result.status = "interrupt" =>
              ApprovedCleanly(approve_message(w1, s, w1.result.payload.message_id), s,
                              w1.result.payload.message_id)
    /\ \A s \in Sessions, m \in RowIds(Sys) :
         SuspendedOn(Sys, s, m) => ApprovedCleanly(approve_message(Sys, s, m), s, m)

\* a thread has reached END with an approved answer and no draft left
C3_Witness ==
    \E t \in DOMAIN ckpt :
        /\ ckpt[t].next = "end"
        /\ ApprovedIn(Sys, t) # {}
        /\ PendingIn(Sys, t) = {}

(* C4.  Rejecting the draft m a thread is suspended on, with feedback f,    *)
(* marks row m rejected with reason f, runs one generation and suspends     *)
(* again on another row, which is the thread's only unapproved one.         *)
C4_RejectRegenerates ==
    \A s \in Sessions, m \in RowIds(Sys), f \in Feedbacks :
        SuspendedOn(Sys, s, m) =>
            LET w == reject_message(Sys, s, m, f)
            IN /\ w.rows[m].approved = "False"
               /\ w.rows[m].rejection_reason = f
               /\ Len(w.promptLog) = 1
               /\ w.result.status = "interrupt"
               /\ w.result.payload.message_id # m
               /\ PendingIn(w, w.sess[s].thread_id) = {w.result.payload.message_id}

\* a thread is suspended on a new draft after a rejection that carried feedback
C4_Witness ==
    \E t \in DOMAIN ckpt :
        /\ AtGate(Sys, t)
        /\ \E i \in RejectedIn(Sys, t) : rows[i].rejection_reason = "be deeply technical"
        /\ \E j \in PendingIn(Sys, t) : \A i \in RejectedIn(Sys, t) : j > i

(* C5.  The messages handed to the generation that follows a rejection are  *)
(* the checkpointed ones without the rejected draft's entry (their last,    *)
(* holding the draft's text); and no checkpoint holds more than one         *)
(* assistant entry after the question of its turn.                          *)
C5_RejectedDraftRemoved ==
    /\ \A t \in DOMAIN ckpt : Cardinality(EntriesAfterQuestion(ckpt[t].st.messages)) <= 1
    /\ \A s \in Sessions, m \in RowIds(Sys), f \in Feedbacks :
         SuspendedOn(Sys, s, m) =>
            LET before == ckpt[sess[s].thread_id].st.messages
                w == reject_message(Sys, s, m, f)
            IN /\ before[Len(before)] = AI(ckpt[sess[s].thread_id].st.last_answer)
               /\ w.promptLog[1].messages = SubSeq(before, 1, Len(before) - 1)
               /\ EntriesAfterQuestion(w.promptLog[1].messages) = {}

\* a thread is suspended again after a rejection, with one draft entry in its messages
C5_Witness ==
    \E t \in DOMAIN ckpt :
        /\ AtGate(Sys, t)
        /\ RejectedIn(Sys, t) # {}
        /\ Cardinality(EntriesAfterQuestion(ckpt[t].st.messages)) = 1

(* C6.  A second run with the same question and feedback straight after a   *)
(* suspending run, and the approval gate entered again on a suspended       *)
(* thread, return the same draft id and leave the table as it was: no new   *)
(* row, and content, rejection reason and created_at of the draft unchanged.*)
C6_ReconcileIdempotent ==
    /\ \A s \in Sessions, message \in FormMessages :
         LET w1 == send_message(Sys, s, message)
             t == w1.sess[s].thread_id
             user == current_user(s)
             w2 == run_chat_turn(w1, user, t,
                                 build_langchain_history(w1, ThreadRows(w1, user.id, t)),
                                 message, sess[s].last_feedback)
         IN w1.result.status = "interrupt" =>
              /\ w2.result.status = "interrupt"
              /\ w2.result.payload.message_id = w1.result.payload.message_id
              /\ w2.rows = w1.rows
    /\ \A t \in DOMAIN ckpt :
         AtGate(Sys, t) /\ PendingIn(Sys, t) # {} =>
            LET e == GateEnter(Sys, ckpt[t].st)
            IN e.w.rows = rows /\ e.payload.message_id \in PendingIn(Sys, t)

\* a thread is suspended on its draft, whose text is the checkpointed answer
C6_Witness ==
    \E t \in DOMAIN ckpt :
        /\ AtGate(Sys, t)
        /\ \E i \in PendingIn(Sys, t) : rows[i].content = ckpt[t].st.last_answer

(* C7.  Whenever the approval gate is entered, afterwards the draft of the  *)
(* payload is the only unapproved assistant row of the thread.              *)
C7_NoOrphanAfterGateEntry ==
    \A t \in DOMAIN ckpt :
        AtGate(Sys, t) =>
            LET e == GateEnter(Sys, ckpt[t].st)
            IN PendingIn(e.w, t) \subseteq {e.payload.message_id}

(* C8.  A decision that names another row than the pending draft, or that   *)
(* arrives while no draft is pending, is answered with an error and changes *)
(* no row and no checkpoint and runs no generation.                         *)
Refused(w) ==
    /\ w.result.status = "error"
    /\ w.rows = rows
    /\ w.ckpt = ckpt
    /\ w.promptLog = <<>>

C8_InvalidDecisionRefused ==
    \A s \in Sessions, m \in FormIds(Sys), f \in Feedbacks :
        (sess[s].thread_id # 0 /\ (ReviewId(Sys, s) = 0 \/ Forges(Sys, s, m))) =>
            /\ Refused(approve_message(Sys, s, m))
            /\ Refused(reject_message(Sys, s, m, f))

(* C9.  Runs and resumes of one thread exclude each other: no two requests  *)
(* are inside run for the same thread at once, and overlapping send_message *)
(* requests never leave a thread with two unapproved assistant rows.        *)
InRun(t) == {k \in 1..Len(reqs) : reqs[k].thread_id = t /\ reqs[k].pc = "commit"}

C9_RunsSerialized ==
    \A t \in ThreadIds(Sys) :
        /\ Cardinality(InRun(t)) <= 1
        /\ Cardinality(PendingIn(Sys, t)) <= 1

(* C10.  A system whose engine is discarded and rebuilt at any point is, at *)
(* every step, in the same state as the one that kept its engine: same      *)
(* message rows, same checkpointed Turn State and position, same session,   *)
(* and the same status and payload returned by each run and resume.         *)
C10_RebuiltEngineSameOutcome ==
    /\ twin.rows = rows
    /\ twin.ckpt = ckpt
    /\ twin.sess = sess
    /\ twin.result = twin.twinResult

\* a suspended turn was approved on an engine rebuilt after the suspension
C10_Witness ==
    /\ twin.rebuilt
    /\ twin.result.op = "approve_message"
    /\ twin.result.status = "complete"
    /\ \E t \in DOMAIN ckpt : ckpt[t].next = "end" /\ ApprovedIn(Sys, t) # {}

(* C11.  A resume that stopped after its decision was committed to the row  *)
(* and before the checkpoint moved on can be sent again: the repeated       *)
(* approval completes the turn, adds no row and leaves no unapproved        *)
(* assistant row in the thread; the repeated rejection suspends the thread  *)
(* on the one regenerated draft.                                            *)
C11_RepeatedResumeCompletes ==
    \A k \in 1..Len(reqs) :
        LET r == reqs[k]
            t == sess[r.s].thread_id
            w == Repeated(Sys, r)
        IN IF r.payload.approved
           THEN /\ w.result.status = "complete"
                /\ RowIds(w) = RowIds(Sys)
                /\ PendingIn(w, t) = {}
           ELSE /\ w.result.status = "interrupt"
                /\ Cardinality(RowIds(w)) = Cardinality(RowIds(Sys)) + 1
                /\ Cardinality(PendingIn(w, t)) = 1

(* C13.  Feedback is consumed by the one regeneration that follows its      *)
(* rejection: every checkpoint taken after a generation (the thread         *)
(* suspended or done) holds no last_feedback, and the first generation of   *)
(* a new question's turn is handed none.                                    *)
C13_FeedbackConsumedOnce ==
    /\ \A t \in DOMAIN ckpt :
         ckpt[t].next \in {"approval_gate", "end"} => ckpt[t].st.last_feedback = None
    /\ \A s \in Sessions, message \in FormMessages :
         LET w == send_message(Sys, s, message)
         IN w.promptLog # <<>> => w.promptLog[1].feedback = None

(* C14.  Rejecting the draft a thread is suspended on, with non-empty       *)
(* feedback, suspends the thread on an answer whose text differs from the   *)
(* rejected draft's.                                                        *)
C14_RegeneratedAnswerDiffers ==
    \A s \in Sessions, m \in RowIds(Sys), f \in Feedbacks \ {""} :
        SuspendedOn(Sys, s, m) =>
            LET w == reject_message(Sys, s, m, f)
            IN /\ w.result.status = "interrupt"
               /\ w.result.payload.answer # rows[m].content

(* C15.  build_langchain_history returns, in created_at order, the messages *)
(* of a set of rows: all user rows and those assistant rows that pass the   *)
(* filter.                                                                  *)
InHistory(w, i) == IF w.rows[i].role = "assistant" THEN AI(w.rows[i].content)
                   ELSE Human(w.rows[i].content)

\* history is exactly the rows `kept`, oldest first
HistoryIs(w, history, kept) ==
    /\ Len(history) = Cardinality(kept)
    /\ \A i \in kept :
         history[Cardinality({j \in kept : w.rows[j].created_at <= w.rows[i].created_at})]
             = InHistory(w, i)

ThreadOf(s) == ThreadRows(Sys, current_user(s).id, sess[s].thread_id)

\* as stated: the assistant rows kept are those whose approved is not false
C15_HistoryKeepsNotRejected ==
    \A s \in Sessions :
        HistoryIs(Sys, build_langchain_history(Sys, ThreadOf(s)),
                  {i \in ThreadOf(s) : rows[i].role = "user" \/ rows[i].approved # "False"})

\* amended: the assistant rows kept are those whose approved is true
C15_HistoryKeepsApproved ==
    \A s \in Sessions :
        HistoryIs(Sys, build_langchain_history(Sys, ThreadOf(s)),
                  {i \in ThreadOf(s) : rows[i].role = "user" \/ rows[i].approved = "True"})

\* a session's thread holds a question, a rejected draft and an unapproved one
C15_Witness ==
    \E s \in Sessions :
        /\ \E i \in ThreadOf(s) : rows[i].role = "assistant" /\ rows[i].approved = "False"
        /\ \E i \in ThreadOf(s) : rows[i].role = "assistant" /\ rows[i].approved = None
        /\ Len(build_langchain_history(Sys, ThreadOf(s))) >= 1

(* C16.  For every question the agent's model and tool rounds end with an   *)
(* answer, and the run that send_message starts returns an interrupt whose  *)
(* payload carries that answer.                                             *)
C16_GenerationReachesGate ==
    \A s \in Sessions, message \in FormMessages \ {""} :
        /\ agent_invoke(<<Human(Plain(message))>>,
                        Context(current_user(s), 1, None)).ok
        /\ LET w == send_message(Sys, s, message)
           IN w.result.status # "none" =>
                /\ w.result.status = "interrupt"
                /\ w.result.payload.answer = w.promptLog[Len(w.promptLog)].answer

(* C17.  A request during which the model backend fails in a generation     *)
(* ends in an error for the caller, and a request whose generation failed   *)
(* (backend failure or recursion limit) adds no assistant row and leaves no *)
(* unapproved row that was not there before; the rejection that started a   *)
(* failed regeneration stays recorded.                                      *)
AssistantIds(w) == {i \in RowIds(w) : w.rows[i].role = "assistant"}

FailedCleanly(w, t) ==
    (w.promptLog # <<>> /\ w.result.status = "error") =>
        /\ AssistantIds(w) = AssistantIds(Sys)
        /\ PendingIn(w, t) \subseteq PendingIn(Sys, t)

C17_FailedGenerationCreatesNoDraft ==
    /\ \A s \in Sessions, message \in FormMessages, b \in Backends :
         LET w == send_message(During(b), s, message)
         IN /\ FailedCleanly(w, w.sess[s].thread_id)
            /\ (b = "down" /\ w.result.status # "none") => w.result.status = "error"
    /\ \A s \in Sessions, m \in RowIds(Sys), f \in Feedbacks, b \in Backends :
         SuspendedOn(Sys, s, m) =>
            LET w == reject_message(During(b), s, m, f)
            IN /\ FailedCleanly(w, sess[s].thread_id)
               /\ b = "down" =>
                    /\ w.result.status = "error"
                    /\ w.rows[m].approved = "False"
                    /\ PendingIn(w, sess[s].thread_id) = {}

\* a regeneration has failed: the draft is rejected, no new one exists and the
\* thread waits before llm_turn
C17_Witness ==
    \E t \in DOMAIN ckpt :
        /\ ckpt[t].next = "llm_turn"
        /\ RejectedIn(Sys, t) # {}
        /\ PendingIn(Sys, t) = {}
        /\ _planned_tool_calls(_extract_question(ckpt[t].st.messages)) = {}

(* C18.  On a thread whose turn has reached END, a resume with any decision *)
(* and any message id runs no generation and changes no row and no          *)
(* checkpoint.                                                              *)
NothingDone(w) ==
    /\ w.promptLog = <<>>
    /\ w.rows = rows
    /\ w.ckpt = ckpt

C18_DoneIsTerminal ==
    \A s \in Sessions :
        (sess[s].thread_id \in DOMAIN ckpt /\ ckpt[sess[s].thread_id].next = "end") =>
            /\ NothingDone(approve_tool(Sys, s, 1))
            /\ \A m \in FormIds(Sys) : NothingDone(approve_message(Sys, s, m))
            /\ \A f \in Feedbacks :
                 /\ NothingDone(reject_tool(Sys, s, 1, f))
                 /\ \A m \in FormIds(Sys) : NothingDone(reject_message(Sys, s, m, f))

\* a turn has ended by approval after a rejection, other rows exist to name
C18_Witness ==
    \E s \in Sessions :
        /\ sess[s].thread_id \in DOMAIN ckpt
        /\ ckpt[sess[s].thread_id].next = "end"
        /\ ApprovedIn(Sys, sess[s].thread_id) # {}
        /\ RejectedIn(Sys, sess[s].thread_id) # {}

(* C19.  A checkpoint of a suspended or finished thread has needs_retry     *)
(* false; needs_retry is true only in a checkpoint left between a rejection *)
(* and the generation that follows it, and the gate sets it exactly on      *)
(* rejection.                                                               *)
C19_NeedsRetryTransient ==
    /\ \A t \in DOMAIN ckpt :
         /\ ckpt[t].next \in {"approval_gate", "end"} => ~ckpt[t].st.needs_retry
         /\ ckpt[t].st.needs_retry =>
              ckpt[t].next = "llm_turn" /\ RejectedIn(Sys, t) # {} /\ PendingIn(Sys, t) = {}
    /\ \A s \in Sessions, m \in RowIds(Sys), f \in Feedbacks :
         SuspendedOn(Sys, s, m) =>
            LET st == ckpt[sess[s].thread_id].st
            IN /\ GateDecide(Sys, st, m, ReviewDecision(FALSE, m, f)).st.needs_retry
               /\ ~GateDecide(Sys, st, m, ReviewDecision(TRUE, m, None)).st.needs_retry
               /\ ~approve_message(Sys, s, m).ckpt[sess[s].thread_id].st.needs_retry
               /\ ~reject_message(Sys, s, m, f).ckpt[sess[s].thread_id].st.needs_retry

\* a checkpoint left between a rejection and the generation that did not happen
C19_Witness ==
    \E t \in DOMAIN ckpt : ckpt[t].st.needs_retry

(* C20.  From every suspension, n rejections in a row are each accepted:    *)
(* they run n generations, add n rejected rows, and leave the thread        *)
(* suspended on exactly one unapproved draft.                               *)
MaxRejections == 3

\* the draft of the last payload of r.w rejected with feedback f
RejectOnce(r, s, f) ==
    CHOOSE x \in {[w |-> w2, generations |-> r.generations + Len(w2.promptLog)] :
                    w2 \in {reject_message(c, s, c.result.payload.message_id, f) :
                              c \in {Canon(r.w)}}} : TRUE

RECURSIVE RejectTimes(_, _, _, _)
\* RejectOnce n times from the suspension w
RejectTimes(w, s, n, f) ==
    IF n = 0 THEN [w |-> w, generations |-> 0]
    ELSE CHOOSE x \in {RejectOnce(r, s, f) : r \in {RejectTimes(w, s, n - 1, f)}} : TRUE

C20_EveryRejectionRegenerates ==
    \A s \in Sessions, message \in FormMessages, f \in Feedbacks, n \in 0..MaxRejections :
      \A w1 \in {send_message(Sys, s, message)} :
        LET t == w1.sess[s].thread_id
            r == RejectTimes(w1, s, n, f)
        IN w1.result.status = "interrupt" =>
             /\ Len(w1.promptLog) = 1
             /\ r.generations = n
             /\ Cardinality(RejectedIn(r.w, t)) = Cardinality(RejectedIn(w1, t)) + n
             /\ Cardinality(PendingIn(r.w, t)) = 1
             /\ AtGate(r.w, t)
             /\ r.w.result.status = "interrupt"

\* a thread is suspended on its third draft after two rejections
C20_Witness ==
    \E t \in DOMAIN ckpt :
        /\ AtGate(Sys, t)
        /\ Cardinality(RejectedIn(Sys, t)) = 2
        /\ Cardinality(PendingIn(Sys, t)) = 1

(* C21.  The role LocalSkillModel detects in the instruction built for a    *)
(* skill tier is that tier's class, and the answer is that class's          *)
(* template, for every user name, question and feedback text.               *)
\* User.skill_level values: the three the model knows and one it does not
SkillTiers == {"beginner", "mid", "expert", "novice"}

\* User.username values, and none
UserNames == {"", "alice", "bob"}

\* the class of answers a tier is to get
TierClass(tier) == IF tier \in {"expert", "mid"} THEN tier ELSE "beginner"

\* the feedback texts the sessions and the checkpointed turns hold
FeedbackHeld ==
    {sess[s].last_feedback : s \in Sessions}
        \cup {ckpt[t].st.last_feedback : t \in DOMAIN ckpt}

C21_AnswerClassFollowsTier ==
    \A tier \in SkillTiers, name \in UserNames, f \in FeedbackHeld,
       message \in FormMessages \ {""} :
        LET prompt == _prompt_for_skill(tier, name, f)
        IN /\ _detect_role(prompt) = TierClass(tier)
           /\ _render_answer(message, _detect_role(prompt))
                = _render_answer(message, TierClass(tier))

(* C22.  reset_thread(t) leaves no checkpoint of thread t and every other   *)
(* thread's checkpoint as it was, and changes no row; on a thread without a *)
(* checkpoint, a second time, or with the empty id it changes no            *)
(* checkpoint.  reset_chat removes the checkpoint of the session's thread   *)
(* alone.                                                                   *)
C22_ResetThreadOnlyThatThread ==
    /\ \A t \in 0..(MaxThreads + 1) :
         \A w \in {reset_thread(Sys, t)} :
            /\ DOMAIN w.ckpt = DOMAIN ckpt \ {t}
            /\ \A x \in DOMAIN w.ckpt : w.ckpt[x] = ckpt[x]
            /\ w.rows = rows
            /\ reset_thread(w, t).ckpt = w.ckpt
            /\ t \notin DOMAIN ckpt => w.ckpt = ckpt
    /\ \A s \in Sessions :
         \A w \in {reset_chat(Sys, s)} :
            /\ DOMAIN w.ckpt = DOMAIN ckpt \ {sess[s].thread_id}
            /\ \A x \in DOMAIN w.ckpt : w.ckpt[x] = ckpt[x]

\* a thread was reset and is gone, the thread begun after it has a checkpoint
C22_Witness ==
    \E t \in 1..nextThread :
        /\ t \notin DOMAIN ckpt
        /\ \A s \in Sessions : sess[s].thread_id # t
        /\ DOMAIN ckpt # {}

(* C23.  The checkpointed Turn State keeps the user_id, skill_level,        *)
(* thread_id and question that run was given: a run checkpoints them as     *)
(* given, and no approval, rejection or regeneration changes them.          *)
Identity(st) ==
    [user_id |-> st.user_id, skill_level |-> st.skill_level,
     thread_id |-> st.thread_id, question |-> st.question]

C23_IdentityFieldsKept ==
    /\ \A t \in DOMAIN ckpt : ckpt[t].st.thread_id = t
    /\ \A s \in Sessions, message \in FormMessages :
         \A w \in {send_message(Sys, s, message)} :
            w.result.status # "none" =>
                Identity(w.ckpt[w.sess[s].thread_id].st)
                    = [user_id |-> current_user(s).id,
                       skill_level |-> current_user(s).skill_level,
                       thread_id |-> w.sess[s].thread_id, question |-> message]
    /\ \A s \in Sessions :
         sess[s].thread_id \in DOMAIN ckpt =>
            LET t == sess[s].thread_id
                kept == Identity(ckpt[t].st)
            IN /\ Identity(approve_tool(Sys, s, 1).ckpt[t].st) = kept
               /\ \A m \in FormIds(Sys) :
                    Identity(approve_message(Sys, s, m).ckpt[t].st) = kept
               /\ \A f \in Feedbacks :
                    /\ Identity(reject_tool(Sys, s, 1, f).ckpt[t].st) = kept
                    /\ \A m \in FormIds(Sys) :
                         Identity(reject_message(Sys, s, m, f).ckpt[t].st) = kept

\* a beginner's turn is suspended on a draft regenerated with feedback
C23_Witness ==
    \E t \in DOMAIN ckpt :
        /\ AtGate(Sys, t)
        /\ ckpt[t].st.last_feedback = "be deeply technical"
        /\ ckpt[t].st.skill_level = "beginner"
        /\ ckpt[t].st.question = "what is a list?"

(* C24.  Whatever the other threads' requests do in between, the thread of  *)
(* session Own has the rows, the checkpoint and the returned payloads it    *)
(* has when Own's requests run alone (row ids and thread ids, which the     *)
(* table and uuid4 hand out, apart).                                        *)
\* the rows of the thread of session s, oldest first, and its checkpoint
ThreadView(w, s) ==
    LET t == w.sess[s].thread_id
        ordered == SortedByCreatedAt(w, {i \in RowIds(w) : w.rows[i].thread_id = t})
    IN [rows |-> [k \in 1..Len(ordered) |->
                    [user_id |-> w.rows[ordered[k]].user_id,
                     role |-> w.rows[ordered[k]].role,
                     content |-> w.rows[ordered[k]].content,
                     approved |-> w.rows[ordered[k]].approved,
                     rejection_reason |-> w.rows[ordered[k]].rejection_reason]],
        ckpt |-> IF t \in DOMAIN w.ckpt
                 THEN [next |-> w.ckpt[t].next,
                       st |-> [w.ckpt[t].st EXCEPT !.thread_id = 0]]
                 ELSE [next |-> "none"]]

\* what run / resume returned, without the ids
ResultView(result) ==
    [op |-> result.op, status |-> result.status,
     payload |-> IF result.payload.kind = "none" THEN NoPayload
                 ELSE [kind |-> result.payload.kind, answer |-> result.payload.answer,
                       question |-> result.payload.question]]

C24_ThreadsDoNotInterfere ==
    /\ ThreadView(Sys, Own) = ThreadView(TwinSys, Own)
    /\ ResultView(twin.result) = ResultView(twin.twinResult)

(* C25.  _ensure_pending_message_row on a thread that has an unapproved     *)
(* assistant row returns the id of such a row, with the answer as its text, *)
(* and adds no row; on a thread that has none it adds one unapproved row    *)
(* with the answer.  This wherever the unapproved row stands among the      *)
(* thread's assistant rows: also in the regeneration that follows the       *)
(* rejection of a newer draft.                                              *)
EnsuredOn(w, t, e, answer) ==
    IF PendingIn(w, t) # {}
    THEN /\ e.id \in PendingIn(w, t)
         /\ RowIds(e.w) = RowIds(w)
         /\ e.w.rows[e.id].content = answer
         /\ \A i \in RowIds(w) \ {e.id} : e.w.rows[i] = w.rows[i]
    ELSE /\ e.id \notin RowIds(w)
         /\ RowIds(e.w) = RowIds(w) \cup {e.id}
         /\ e.w.rows[e.id].approved = None
         /\ e.w.rows[e.id].content = answer
         /\ e.w.rows[e.id].thread_id = t

C25_EnsurePendingReusesAnyPending ==
    /\ \A t \in DOMAIN ckpt :
         AtGate(Sys, t) =>
            \A e \in {_ensure_pending_message_row(Sys, ckpt[t].st, AnswerOrEmpty(ckpt[t].st))} :
                EnsuredOn(Sys, t, e, AnswerOrEmpty(ckpt[t].st))
    /\ \A s \in Sessions, f \in Feedbacks :
         ReviewId(Sys, s) # 0 =>
            \A w \in {reject_message(Sys, s, ReviewId(Sys, s), f)} :
                LET others == PendingIn(Sys, sess[s].thread_id) \ {ReviewId(Sys, s)}
                IN (w.result.status = "interrupt" /\ others # {}) =>
                      /\ w.result.payload.message_id \in others
                      /\ RowIds(w) = RowIds(Sys)

(* C26.  Whenever a request of session s returns an interrupt, the payload  *)
(* names an existing assistant row of s's user and thread that is           *)
(* unapproved and holds the payload's answer, the payload's thread is s's   *)
(* thread, and its question is the question of the checkpointed Turn State. *)
PayloadNamesDraft(w, s) ==
    w.result.status = "interrupt" =>
        LET p == w.result.payload
            t == w.sess[s].thread_id
        IN /\ p.kind = "message_review"
           /\ p.message_id \in RowIds(w)
           /\ w.rows[p.message_id].role = "assistant"
           /\ w.rows[p.message_id].approved = None
           /\ w.rows[p.message_id].thread_id = p.thread_id
           /\ p.thread_id = t
           /\ w.rows[p.message_id].user_id = current_user(s).id
           /\ w.rows[p.message_id].content = p.answer
           /\ p.question = w.ckpt[t].st.question

C26_PayloadNamesDraft ==
    \A s \in Sessions :
        /\ \A message \in FormMessages : PayloadNamesDraft(send_message(Sys, s, message), s)
        /\ PayloadNamesDraft(approve_tool(Sys, s, 1), s)
        /\ \A m \in FormIds(Sys) : PayloadNamesDraft(approve_message(Sys, s, m), s)
        /\ \A f \in Feedbacks :
             /\ PayloadNamesDraft(reject_tool(Sys, s, 1, f), s)
             /\ \A m \in FormIds(Sys) : PayloadNamesDraft(reject_message(Sys, s, m, f), s)

\* a session's thread is suspended on a second draft of its user, which holds
\* the checkpointed answer to the checkpointed question
C26_Witness ==
    \E s \in Sessions :
        /\ ReviewId(Sys, s) # 0
        /\ RejectedIn(Sys, sess[s].thread_id) # {}
        /\ rows[ReviewId(Sys, s)].user_id = current_user(s).id
        /\ rows[ReviewId(Sys, s)].approved = None
        /\ rows[ReviewId(Sys, s)].content = ckpt[sess[s].thread_id].st.last_answer
        /\ ckpt[sess[s].thread_id].st.question # ""

(* C27.  An approval or rejection sent from session s, whatever message id  *)
(* it carries, leaves approved and rejection_reason as they were on every   *)
(* row that is not an assistant row of s's user and thread.                 *)
\* row i has the approval status and rejection reason it has in the state
DecisionKept(w, i) ==
    /\ i \in RowIds(w)
    /\ w.rows[i].approved = rows[i].approved
    /\ w.rows[i].rejection_reason = rows[i].rejection_reason

C27_DecisionStaysInThread ==
    \A s \in Sessions, m \in FormIds(Sys), f \in Feedbacks :
        \A w \in {approve_message(Sys, s, m), reject_message(Sys, s, m, f)} :
            \A i \in RowIds(Sys) :
                ~(/\ rows[i].role = "assistant"
                  /\ rows[i].user_id = current_user(s).id
                  /\ rows[i].thread_id = sess[s].thread_id) => DecisionKept(w, i)

(* C28.  A thread that has an unapproved assistant row is suspended in the  *)
(* approval gate on that row: the row is the one a review names, so that it *)
(* can be decided and send_message opens again.                             *)
C28_PendingMeansSuspended ==
    \A t \in ThreadIds(Sys) :
        PendingIn(Sys, t) # {} =>
            /\ AtGate(Sys, t)
            /\ PendingIn(Sys, t) = {LatestPending(Sys, ckpt[t].st).id}

(* C29.  A tool decision (approve_tool, reject_tool) leaves approved and    *)
(* rejection_reason of every assistant row as they were and runs no         *)
(* generation.                                                              *)
C29_ToolDecisionLeavesDrafts ==
    \A s \in Sessions, f \in Feedbacks :
        \A w \in {approve_tool(Sys, s, 1), reject_tool(Sys, s, 1, f)} :
            /\ w.promptLog = <<>>
            /\ \A i \in RowIds(Sys) : rows[i].role = "assistant" => DecisionKept(w, i)

(* C30.  send_message with a text that is blank once stripped, or on a      *)
(* thread that has an unapproved assistant row, changes no row and no       *)
(* checkpoint, runs no turn and leaves the feedback the session holds for   *)
(* the next turn where it is.                                               *)
\* request.form["message"] values with the text of blanks added
SubmittedTexts == FormMessages \cup {" "}

C30_RefusedSendChangesNothing ==
    \A s \in Sessions, message \in SubmittedTexts :
        (Strip(message) = "" \/ PendingIn(Sys, sess[s].thread_id) # {}) =>
            \A w \in {send_message(Sys, s, message)} :
                /\ w.rows = rows
                /\ w.ckpt = ckpt
                /\ w.promptLog = <<>>
                /\ w.result.status = "none"
                /\ w.sess[s].last_feedback = sess[s].last_feedback

\* a session holds feedback for its next turn while its thread has a draft to review
C30_Witness ==
    \E s \in Sessions :
        /\ sess[s].last_feedback # None
        /\ PendingIn(Sys, sess[s].thread_id) # {}

====
